---- MODULE Spec2Model ----
(***************************************************************************)
(* parity-tokio-ipc, src/unix.rs: the unix Endpoint, its SecurityAttributes, *)
(* the IncomingStream accept adapter and the Connection byte stream, over a  *)
(* model of the filesystem namespace and the AF_UNIX sockets they call into. *)
(*                                                                           *)
(* The processes of the host interleave at the granularity of system calls:  *)
(* incoming() is a step per system call (bind, the close of a listener      *)
(* stored before, chmod), every other call is one step.                      *)
(***************************************************************************)
EXTENDS Integers, Sequences, FiniteSets, TLC

\* ------------------------------------------------------------------ bounds
\* Connections dialed in one behaviour.
MaxConns == 3
\* Connections dialed in one behaviour of the two-endpoint specification.
LifeConns == 1
\* Bytes written to Connections in one behaviour.
MaxMsg == 3
\* Bytes the kernel buffers per direction of a stream.
BufCap == 2
\* Accept errors the OS reports in one behaviour.
MaxAcceptErrs == 1
\* Connections a listener queues before connect is refused with WouldBlock.
Backlog == 2

\* ------------------------------------------------------------- the universe
Endpoints == {"A", "B"}
Paths == {"p"}
\* Who dials: the user that owns the listening process, or another user.
Users == {"owner", "other"}
\* The file mode creation masks of the listening process.
Umasks == {\o022, \o000}
\* The values handed to set_mode (u16): 0640, and one wider than the twelve
\* mode bits of a filesystem node.
ModeInputs == {\o640, \o10640}
Sides == {"cli", "srv"}
\* The listening sockets an Endpoint creates: it holds at most the one it
\* stores and the one a repeated incoming() has just bound.
ListenersOf(e) == IF e = "A" THEN {1, 2} ELSE {3, 4}
Listeners == UNION {ListenersOf(e) : e \in Endpoints}
Conns == 1..MaxConns

None == -1
Peer(s) == IF s = "cli" THEN "srv" ELSE "cli"

\* ----------------------------------------------------- SecurityAttributes
empty == [mode |-> \o600]

allow_everyone_connect(self) == [self EXCEPT !.mode = \o666]

set_mode(self, mode) == [self EXCEPT !.mode = mode]

allow_everyone_create == [mode |-> None]

\* Every attributes value a caller can build.
AttrValues ==
    {empty, allow_everyone_connect(empty), allow_everyone_create}
        \cup {set_mode(empty, m) : m \in ModeInputs}

\* ------------------------------------------------------------ the filesystem
NoNode == [exists |-> FALSE, mode |-> 0, lsn |-> 0]

\* chmod(2): the node's twelve mode bits are replaced by those of `mode`
\* (`mode as _` widens the u16 to mode_t); -1 when no node is at the path.
chmod(f, path, mode) ==
    IF f[path].exists
    THEN [rc |-> 0, fs |-> [f EXCEPT ![path].mode = mode % \o10000]]
    ELSE [rc |-> -1, fs |-> f]

\* Paths with an embedded NUL byte, handed to apply_permissions alone.
NulPaths == {"p_NUL_q", "NUL"}

\* The bytes of a path string.
PathBytes(path) ==
    CASE path = "p" -> <<112>>
      [] path = "p_NUL_q" -> <<112, 0, 113>>
      [] path = "NUL" -> <<0>>

\* CString::new: the bytes with a terminating NUL appended, or NulError
\* (io::ErrorKind::InvalidInput after `?`) when a byte of them is NUL.
CString_new(path) ==
    IF \E i \in 1..Len(PathBytes(path)) : PathBytes(path)[i] = 0
    THEN [res |-> "InvalidInput", bytes |-> <<>>]
    ELSE [res |-> "Ok", bytes |-> Append(PathBytes(path), 0)]

apply_permissions_skip(self, f, path) == [res |-> "Ok", fs |-> f, syscall |-> FALSE]

apply_permissions_lazy(self, f, path) ==
    IF self.mode # None
    THEN IF CString_new(path).res # "Ok"
         THEN [res |-> "InvalidInput", fs |-> f, syscall |-> FALSE]
         ELSE LET r == chmod(f, path, self.mode)
              IN  IF r.rc = -1
                  THEN [res |-> "NotFound", fs |-> f, syscall |-> TRUE]
                  ELSE [res |-> "Ok", fs |-> r.fs, syscall |-> TRUE]
    ELSE [res |-> "Ok", fs |-> f, syscall |-> FALSE]

\* apply_permissions: the error of CString::new before anything else; then
\* Ok after the chmod, or with no override; the OS error of a failed chmod.
apply_permissions(self, f, path) ==
    IF CString_new(path).res # "Ok"
    THEN [res |-> "InvalidInput", fs |-> f, syscall |-> FALSE]
    ELSE IF self.mode # None
    THEN LET r == chmod(f, path, self.mode)
         IN  IF r.rc = -1
             THEN [res |-> "NotFound", fs |-> f, syscall |-> TRUE]
             ELSE [res |-> "Ok", fs |-> r.fs, syscall |-> TRUE]
    ELSE [res |-> "Ok", fs |-> f, syscall |-> FALSE]

\* Write permission of user u on a node of this mode: what connect(2) needs.
MayWrite(u, mode) ==
    IF u = "owner" THEN (mode \div \o200) % 2 = 1 ELSE (mode \div \o2) % 2 = 1

VARIABLES fs, umask, ep, lsnr, conn, nextConn, last

vars == <<fs, umask, ep, lsnr, conn, nextConn, last>>

\* -------------------------------------------------------------------- state
\* Endpoint { path, security_attributes, unix_listener }, with where its
\* incoming() call stands (pc), the listener that call has bound and not
\* yet stored (tmp), and whether an IncomingStream borrows it (sess).
NoEndpoint ==
    [alive |-> FALSE, path |-> "p", attrs |-> empty, lsn |-> 0, tmp |-> 0,
     pc |-> "idle", sess |-> FALSE]

\* A listening socket: its accept queue, what was queued on it and yielded
\* from it so far, and the accept errors it reported.
NoListener ==
    [open |-> FALSE, queue |-> <<>>, arrived |-> <<>>, yielded |-> <<>>, errs |-> 0]

\* A connected pair of stream sockets. Per writing side: the bytes the
\* kernel holds (buf), all it accepted (sent), and per reading side all that
\* was read (rcvd), whether end-of-stream was read (eof).
NoConn ==
    [st |-> "free",
     open |-> [s \in Sides |-> FALSE],
     wshut |-> [s \in Sides |-> FALSE],
     eof |-> [s \in Sides |-> FALSE],
     buf |-> [s \in Sides |-> <<>>],
     sent |-> [s \in Sides |-> <<>>],
     rcvd |-> [s \in Sides |-> <<>>]]

\* The call that completed last and what it returned to its caller: who
\* made it, the connection it is about or returned, and a count (the bytes
\* moved by a read or write, the listeners closed by a drop).
Call(op, who, res, c, n) == [op |-> op, who |-> who, res |-> res, conn |-> c, n |-> n]

Init ==
    /\ fs = [p \in Paths |-> NoNode]
    /\ umask \in Umasks
    /\ ep = [e \in Endpoints |-> NoEndpoint]
    /\ lsnr = [l \in Listeners |-> NoListener]
    /\ conn = [c \in Conns |-> NoConn]
    /\ nextConn = 1
    /\ last = Call("none", "-", "none", 0, 0)

\* The bits a node is created with: 0777 less the umask's bits.
CreateMode == \o777 - umask

\* ------------------------------------------------------------ the listeners
FreeListener(e) ==
    CHOOSE l \in ListenersOf(e) :
        ~lsnr[l].open /\ \A k \in ListenersOf(e) : ~lsnr[k].open => l <= k

InQueue(q) == {q[i] : i \in 1..Len(q)}

CloseQueued_accepted(cn, ls, l) ==
    [c \in Conns |->
        IF l # 0 /\ c \in InQueue(ls[l].arrived)
        THEN [cn[c] EXCEPT !.st = "reset", !.buf = [s \in Sides |-> <<>>],
                           !.open["srv"] = FALSE]
        ELSE cn[c]]

\* Closing a listening socket releases the connections still queued on it:
\* their dialing sides see the peer gone.
CloseQueued(cn, ls, l) ==
    [c \in Conns |->
        IF l # 0 /\ cn[c].st = "queued" /\ c \in InQueue(ls[l].queue)
        THEN [cn[c] EXCEPT !.st = "reset", !.buf = [s \in Sides |-> <<>>]]
        ELSE cn[c]]

CloseListener(ls, l) == IF l = 0 THEN ls ELSE [ls EXCEPT ![l] = NoListener]

\* ---------------------------------------------------------------- Endpoint
\* Endpoint::new
New(e, path) ==
    /\ ~ep[e].alive
    /\ ep' = [ep EXCEPT ![e] = [NoEndpoint EXCEPT !.alive = TRUE, !.path = path]]
    /\ last' = Call("new", e, "Ok", 0, 0)
    /\ UNCHANGED <<fs, umask, lsnr, conn, nextConn>>

SetSecurityAttributes_chmod(e, attrs) ==
    /\ ep[e].alive /\ ep[e].pc = "idle" /\ ~ep[e].sess
    /\ ep' = [ep EXCEPT ![e].attrs = attrs]
    /\ fs' = apply_permissions(attrs, fs, ep[e].path).fs
    /\ last' = Call("set_security_attributes", e, "Unit", 0, 0)
    /\ UNCHANGED <<umask, lsnr, conn, nextConn>>

\* Endpoint::set_security_attributes
SetSecurityAttributes(e, attrs) ==
    /\ ep[e].alive /\ ep[e].pc = "idle" /\ ~ep[e].sess
    /\ ep' = [ep EXCEPT ![e].attrs = attrs]
    /\ last' = Call("set_security_attributes", e, "Unit", 0, 0)
    /\ UNCHANGED <<fs, umask, lsnr, conn, nextConn>>

bind_over(f, path, l) ==
    [res |-> "Ok",
     fs |-> [f EXCEPT ![path] = [exists |-> TRUE, mode |-> \o777 - umask, lsn |-> l]]]

\* UnixListener::bind, one bind(2): AddrInUse on an occupied path, else the
\* node is created with the create-time bits and names the new socket.
bind(f, path, l) ==
    IF f[path].exists
    THEN [res |-> "AddrInUse", fs |-> f]
    ELSE [res |-> "Ok",
          fs |-> [f EXCEPT ![path] = [exists |-> TRUE, mode |-> CreateMode, lsn |-> l]]]

IncomingBind_discard(e) ==
    /\ ep[e].alive /\ ep[e].pc = "idle" /\ ~ep[e].sess
    /\ LET l == FreeListener(e)
           old == ep[e].lsn
           r == bind(fs, ep[e].path, l)
       IN  IF r.res # "Ok"
           THEN /\ last' = Call("incoming", e, r.res, 0, 0)
                /\ lsnr' = CloseListener(lsnr, old)
                /\ conn' = CloseQueued(conn, lsnr, old)
                /\ ep' = [ep EXCEPT ![e].lsn = 0]
                /\ UNCHANGED fs
           ELSE /\ fs' = r.fs
                /\ lsnr' = [lsnr EXCEPT ![l] = [NoListener EXCEPT !.open = TRUE]]
                /\ ep' = IF old = 0
                         THEN [ep EXCEPT ![e].lsn = l, ![e].pc = "applying"]
                         ELSE [ep EXCEPT ![e].tmp = l, ![e].pc = "storing"]
                /\ last' = Call("bind", e, "Ok", 0, 0)
                /\ UNCHANGED conn
    /\ UNCHANGED <<umask, nextConn>>

IncomingBind_stamp(e) ==
    /\ ep[e].alive /\ ep[e].pc = "idle" /\ ~ep[e].sess
    /\ LET l == FreeListener(e)
           old == ep[e].lsn
           r == bind(fs, ep[e].path, l)
       IN  IF r.res # "Ok"
           THEN /\ last' = Call("incoming", e, r.res, 0, 0)
                /\ fs' = apply_permissions(ep[e].attrs, fs, ep[e].path).fs
                /\ UNCHANGED <<ep, lsnr, conn>>
           ELSE /\ fs' = r.fs
                /\ lsnr' = [lsnr EXCEPT ![l] = [NoListener EXCEPT !.open = TRUE]]
                /\ ep' = IF old = 0
                         THEN [ep EXCEPT ![e].lsn = l, ![e].pc = "applying"]
                         ELSE [ep EXCEPT ![e].tmp = l, ![e].pc = "storing"]
                /\ last' = Call("bind", e, "Ok", 0, 0)
                /\ UNCHANGED conn
    /\ UNCHANGED <<umask, nextConn>>

\* Endpoint::incoming, first step: the bind of self.inner()?. On a bind
\* error the call returns it with nothing changed; else the new listening
\* socket exists, next to the one the Endpoint stores when it stores one.
IncomingBind(e) ==
    /\ ep[e].alive /\ ep[e].pc = "idle" /\ ~ep[e].sess
    /\ LET l == FreeListener(e)
           old == ep[e].lsn
           r == bind(fs, ep[e].path, l)
       IN  IF r.res # "Ok"
           THEN /\ last' = Call("incoming", e, r.res, 0, 0)
                /\ UNCHANGED <<fs, ep, lsnr, conn>>
           ELSE /\ fs' = r.fs
                /\ lsnr' = [lsnr EXCEPT ![l] = [NoListener EXCEPT !.open = TRUE]]
                /\ ep' = IF old = 0
                         THEN [ep EXCEPT ![e].lsn = l, ![e].pc = "applying"]
                         ELSE [ep EXCEPT ![e].tmp = l, ![e].pc = "storing"]
                /\ last' = Call("bind", e, "Ok", 0, 0)
                /\ UNCHANGED conn
    /\ UNCHANGED <<umask, nextConn>>

IncomingStore_leak(e) ==
    /\ ep[e].alive /\ ep[e].pc = "storing"
    /\ ep' = [ep EXCEPT ![e].lsn = ep[e].tmp, ![e].tmp = 0, ![e].pc = "applying"]
    /\ last' = Call("store", e, "Ok", 0, 0)
    /\ UNCHANGED <<fs, umask, lsnr, conn, nextConn>>

\* Endpoint::incoming, the assignment self.unix_listener = Some(..) over a
\* listener stored before: the new one is stored and the old one dropped,
\* which closes it.
IncomingStore(e) ==
    /\ ep[e].alive /\ ep[e].pc = "storing"
    /\ lsnr' = CloseListener(lsnr, ep[e].lsn)
    /\ conn' = CloseQueued(conn, lsnr, ep[e].lsn)
    /\ ep' = [ep EXCEPT ![e].lsn = ep[e].tmp, ![e].tmp = 0, ![e].pc = "applying"]
    /\ last' = Call("store", e, "Ok", 0, 0)
    /\ UNCHANGED <<fs, umask, nextConn>>

\* Endpoint::incoming, second step: apply_permissions(&self.path)?, then
\* Ok(IncomingStream(..)), the exclusive borrow of the stored listener.
IncomingApply(e) ==
    /\ ep[e].alive /\ ep[e].pc = "applying"
    /\ LET r == apply_permissions(ep[e].attrs, fs, ep[e].path)
       IN  /\ fs' = r.fs
           /\ ep' = [ep EXCEPT ![e].pc = "idle", ![e].sess = (r.res = "Ok")]
           /\ last' = Call("incoming", e, r.res, 0, 0)
    /\ UNCHANGED <<umask, lsnr, conn, nextConn>>

\* The caller discards the IncomingStream: the borrow ends, the listener
\* stays stored in the Endpoint.
DropStream(e) ==
    /\ ep[e].alive /\ ep[e].sess
    /\ ep' = [ep EXCEPT ![e].sess = FALSE]
    /\ last' = Call("drop_stream", e, "Unit", 0, 0)
    /\ UNCHANGED <<fs, umask, lsnr, conn, nextConn>>

\* std::fs::remove_file, one unlink(2).
remove_file(f, path) ==
    IF f[path].exists
    THEN [res |-> "Ok", fs |-> [f EXCEPT ![path] = NoNode]]
    ELSE [res |-> "NotFound", fs |-> f]

drop_result_surface(r) == IF r.res = "Ok" THEN "Unit" ELSE r.res

\* What drop hands to its caller: the result of remove_file only decides
\* whether the removal is traced.
drop_result(r) == "Unit"

\* Drop for Endpoint: remove_file(path), its result swallowed; then the
\* fields are dropped, which closes the stored listener.
Drop(e) ==
    /\ ep[e].alive /\ ep[e].pc = "idle" /\ ~ep[e].sess
    /\ LET r == remove_file(fs, ep[e].path)
       IN  /\ fs' = r.fs
           /\ last' = Call("drop", e, drop_result(r), 0, IF ep[e].lsn # 0 THEN 1 ELSE 0)
    /\ lsnr' = CloseListener(lsnr, ep[e].lsn)
    /\ conn' = CloseQueued(conn, lsnr, ep[e].lsn)
    /\ ep' = [ep EXCEPT ![e] = [NoEndpoint EXCEPT !.path = ep[e].path]]
    /\ UNCHANGED <<umask, nextConn>>

connect_unchecked(f, ls, u, path) ==
    IF \E l \in Listeners : ls[l].open THEN "Ok" ELSE "ConnRefused"

\* UnixStream::connect, one connect(2): the path is looked up, the caller
\* needs write permission on the node, the node's socket must be listening
\* with room in its backlog.
connect(f, ls, u, path) ==
    LET n == f[path]
    IN  IF ~n.exists THEN "NotFound"
        ELSE IF ~MayWrite(u, n.mode) THEN "PermissionDenied"
        ELSE IF n.lsn = 0 \/ ~ls[n.lsn].open THEN "ConnRefused"
        ELSE IF Len(ls[n.lsn].queue) >= Backlog THEN "WouldBlock"
        ELSE "Ok"

\* Endpoint::connect: the connected stream is wrapped in a Connection, the
\* error is handed on. A connection is complete on the dialing side as soon
\* as it is queued on the listener.
Connect(u, path, limit) ==
    LET res == connect(fs, lsnr, u, path)
        l == IF fs[path].exists THEN fs[path].lsn
             ELSE CHOOSE k \in Listeners : lsnr[k].open
    IN  /\ IF res = "Ok"
           THEN /\ nextConn <= limit
                /\ conn' = [conn EXCEPT ![nextConn] =
                              [NoConn EXCEPT !.st = "queued", !.open["cli"] = TRUE]]
                /\ lsnr' = [lsnr EXCEPT ![l].queue = Append(@, nextConn),
                                        ![l].arrived = Append(@, nextConn)]
                /\ last' = Call("connect", u, "Ok", nextConn, 0)
                /\ nextConn' = nextConn + 1
           ELSE /\ last' = Call("connect", u, res, 0, 0)
                /\ UNCHANGED <<conn, lsnr, nextConn>>
        /\ UNCHANGED <<fs, umask, ep>>

\* ----------------------------------------------------------- IncomingStream
poll_accept_peek(ls, l, oserr) ==
    IF ls[l].queue = <<>>
    THEN [res |-> "Pending", conn |-> 0, lsnr |-> ls]
    ELSE IF oserr
    THEN [res |-> "Err", conn |-> 0, lsnr |-> [ls EXCEPT ![l].errs = @ + 1]]
    ELSE [res |-> "Ok", conn |-> Head(ls[l].queue),
          lsnr |-> [ls EXCEPT ![l].yielded = Append(@, Head(ls[l].queue))]]

poll_accept_newest(ls, l, oserr) ==
    IF ls[l].queue = <<>>
    THEN [res |-> "Pending", conn |-> 0, lsnr |-> ls]
    ELSE IF oserr
    THEN [res |-> "Err", conn |-> 0, lsnr |-> [ls EXCEPT ![l].errs = @ + 1]]
    ELSE LET q == ls[l].queue
         IN  [res |-> "Ok", conn |-> q[Len(q)],
              lsnr |-> [ls EXCEPT ![l].queue = SubSeq(q, 1, Len(q) - 1),
                                  ![l].yielded = Append(@, q[Len(q)])]]

\* UnixListener::poll_accept, one accept(2): Pending on an empty queue, else
\* the oldest queued connection, or an OS error that leaves the queue as it is.
poll_accept(ls, l, oserr) ==
    IF ls[l].queue = <<>>
    THEN [res |-> "Pending", conn |-> 0, lsnr |-> ls]
    ELSE IF oserr
    THEN [res |-> "Err", conn |-> 0, lsnr |-> [ls EXCEPT ![l].errs = @ + 1]]
    ELSE [res |-> "Ok", conn |-> Head(ls[l].queue),
          lsnr |-> [ls EXCEPT ![l].queue = Tail(@),
                              ![l].yielded = Append(@, Head(ls[l].queue))]]

poll_next_fused(r) ==
    IF r.res = "Pending" THEN "Pending"
    ELSE IF r.res = "Ok" THEN "SomeOk"
    ELSE "None"

\* IncomingStream::poll_next: Pending, Some(Ok(stream)) or Some(Err(inner)).
poll_next(r) ==
    IF r.res = "Pending" THEN "Pending"
    ELSE IF r.res = "Ok" THEN "SomeOk"
    ELSE "SomeErr"

PollNext(e, oserr) ==
    /\ ep[e].alive /\ ep[e].sess
    /\ oserr => lsnr[ep[e].lsn].errs < MaxAcceptErrs /\ lsnr[ep[e].lsn].queue # <<>>
    /\ LET r == poll_accept(lsnr, ep[e].lsn, oserr)
       IN  /\ lsnr' = r.lsnr
           /\ last' = Call("poll_next", e, poll_next(r), r.conn, 0)
           /\ conn' = IF r.res = "Ok"
                      THEN [conn EXCEPT ![r.conn].st = "open", ![r.conn].open["srv"] = TRUE]
                      ELSE conn
    /\ UNCHANGED <<fs, umask, ep, nextConn>>

\* --------------------------------------------------------------- Connection
\* The i-th byte the application on side s has to send.
Msg(s, i) == IF s = "cli" THEN i ELSE 10 + i

Min(a, b) == IF a < b THEN a ELSE b

\* The other end of the pair is closed: dropped by its holder, or released
\* with the listener before it was accepted.
PeerGone(cn, s) ==
    IF s = "cli"
    THEN cn.st = "reset" \/ (cn.st = "open" /\ ~cn.open["srv"])
    ELSE ~cn.open["cli"]

poll_write_eager(cn, s, data, n) ==
    IF cn.wshut[s] \/ PeerGone(cn, s)
    THEN [res |-> "BrokenPipe", n |-> 0, conn |-> cn]
    ELSE IF data = <<>>
    THEN [res |-> "Ok", n |-> 0, conn |-> cn]
    ELSE IF Len(cn.buf[s]) >= BufCap
    THEN [res |-> "Pending", n |-> 0,
          conn |-> [cn EXCEPT !.sent[s] = @ \o SubSeq(data, 1, 1)]]
    ELSE LET k == Min(Min(n, Len(data)), BufCap - Len(cn.buf[s]))
         IN  [res |-> "Ok", n |-> k,
              conn |-> [cn EXCEPT !.buf[s] = @ \o SubSeq(data, 1, k),
                                  !.sent[s] = @ \o SubSeq(data, 1, k)]]

\* UnixStream::poll_write: BrokenPipe once the write half is shut down or the
\* peer is gone, Pending while the kernel buffer is full, else the kernel
\* takes the first k bytes of data, k >= 1 its choice within the room left.
poll_write(cn, s, data, n) ==
    IF cn.wshut[s] \/ PeerGone(cn, s)
    THEN [res |-> "BrokenPipe", n |-> 0, conn |-> cn]
    ELSE IF data = <<>>
    THEN [res |-> "Ok", n |-> 0, conn |-> cn]
    ELSE IF Len(cn.buf[s]) >= BufCap
    THEN [res |-> "Pending", n |-> 0, conn |-> cn]
    ELSE LET k == Min(Min(n, Len(data)), BufCap - Len(cn.buf[s]))
         IN  [res |-> "Ok", n |-> k,
              conn |-> [cn EXCEPT !.buf[s] = @ \o SubSeq(data, 1, k),
                                  !.sent[s] = @ \o SubSeq(data, 1, k)]]

poll_read_keep(cn, s, cap) ==
    LET t == Peer(s)
    IN  IF cn.buf[t] # <<>>
        THEN LET k == Min(cap, Len(cn.buf[t]))
             IN  [res |-> "Ok", n |-> k,
                  conn |-> [cn EXCEPT !.rcvd[s] = @ \o SubSeq(cn.buf[t], 1, k)]]
        ELSE IF cn.wshut[t] \/ PeerGone(cn, s)
        THEN [res |-> "Ok", n |-> 0, conn |-> [cn EXCEPT !.eof[s] = TRUE]]
        ELSE [res |-> "Pending", n |-> 0, conn |-> cn]

poll_read_eof_first(cn, s, cap) ==
    LET t == Peer(s)
    IN  IF cn.wshut[t] \/ PeerGone(cn, s)
        THEN [res |-> "Ok", n |-> 0, conn |-> [cn EXCEPT !.eof[s] = TRUE]]
        ELSE IF cn.buf[t] # <<>>
        THEN LET k == Min(cap, Len(cn.buf[t]))
             IN  [res |-> "Ok", n |-> k,
                  conn |-> [cn EXCEPT !.rcvd[s] = @ \o SubSeq(cn.buf[t], 1, k),
                                      !.buf[t] = SubSeq(@, k + 1, Len(@))]]
        ELSE [res |-> "Pending", n |-> 0, conn |-> cn]

\* UnixStream::poll_read into a buffer with room for cap bytes: the oldest
\* buffered bytes first; with none left, a zero-length completion once the
\* peer has shut down its write half or is gone; else Pending.
poll_read(cn, s, cap) ==
    LET t == Peer(s)
    IN  IF cn.buf[t] # <<>>
        THEN LET k == Min(cap, Len(cn.buf[t]))
             IN  [res |-> "Ok", n |-> k,
                  conn |-> [cn EXCEPT !.rcvd[s] = @ \o SubSeq(cn.buf[t], 1, k),
                                      !.buf[t] = SubSeq(@, k + 1, Len(@))]]
        ELSE IF cn.wshut[t] \/ PeerGone(cn, s)
        THEN [res |-> "Ok", n |-> 0, conn |-> [cn EXCEPT !.eof[s] = TRUE]]
        ELSE [res |-> "Pending", n |-> 0, conn |-> cn]

\* UnixStream::poll_shutdown, shutdown(2) of the write half only.
poll_shutdown(cn, s) == [res |-> "Ok", n |-> 0, conn |-> [cn EXCEPT !.wshut[s] = TRUE]]

\* The bytes written so far to the connections up to c.
RECURSIVE TotalSent(_, _)
TotalSent(cn, c) ==
    IF c = 0 THEN 0
    ELSE Len(cn[c].sent["cli"]) + Len(cn[c].sent["srv"]) + TotalSent(cn, c - 1)

\* AsyncWrite::poll_write for Connection: forwarded to the stream. The
\* caller offers the next len bytes of its message.
Write(c, s, len, n) ==
    /\ conn[c].open[s]
    /\ TotalSent(conn, MaxConns) + len <= MaxMsg
    /\ LET at == Len(conn[c].sent[s])
           data == [i \in 1..len |-> Msg(s, at + i)]
           r == poll_write(conn[c], s, data, n)
       IN  /\ conn' = [conn EXCEPT ![c] = r.conn]
           /\ last' = Call("write", s, r.res, c, r.n)
    /\ UNCHANGED <<fs, umask, ep, lsnr, nextConn>>

\* AsyncRead::poll_read for Connection: forwarded to the stream.
Read(c, s, cap) ==
    /\ conn[c].open[s]
    /\ LET r == poll_read(conn[c], s, cap)
       IN  /\ conn' = [conn EXCEPT ![c] = r.conn]
           /\ last' = Call("read", s, r.res, c, r.n)
    /\ UNCHANGED <<fs, umask, ep, lsnr, nextConn>>

\* AsyncWrite::poll_shutdown for Connection: forwarded to the stream.
Shutdown(c, s) ==
    /\ conn[c].open[s]
    /\ LET r == poll_shutdown(conn[c], s)
       IN  /\ conn' = [conn EXCEPT ![c] = r.conn]
           /\ last' = Call("shutdown", s, r.res, c, 0)
    /\ UNCHANGED <<fs, umask, ep, lsnr, nextConn>>

\* The holder releases its Connection: the stream is closed, what it had
\* not read is discarded, what it wrote stays readable by the peer.
CloseConn(c, s) ==
    /\ conn[c].open[s]
    /\ conn' = [conn EXCEPT ![c].open[s] = FALSE, ![c].buf[Peer(s)] = <<>>]
    /\ last' = Call("close", s, "Unit", c, 0)
    /\ UNCHANGED <<fs, umask, ep, lsnr, nextConn>>

Next ==
    \/ \E e \in Endpoints, p \in Paths : New(e, p)
    \/ \E e \in Endpoints, a \in AttrValues : SetSecurityAttributes(e, a)
    \/ \E e \in Endpoints : IncomingBind(e)
    \/ \E e \in Endpoints : IncomingStore(e)
    \/ \E e \in Endpoints : IncomingApply(e)
    \/ \E e \in Endpoints : DropStream(e)
    \/ \E e \in Endpoints : Drop(e)
    \/ \E u \in Users, p \in Paths : Connect(u, p, LifeConns)

Spec == Init /\ [][Next]_vars

\* One Endpoint, its accept loop and the clients dialing it.
NextAccept ==
    \/ \E p \in Paths : New("A", p)
    \/ \E a \in AttrValues : SetSecurityAttributes("A", a)
    \/ IncomingBind("A")
    \/ IncomingApply("A")
    \/ DropStream("A")
    \/ Drop("A")
    \/ \E u \in Users, p \in Paths : Connect(u, p, MaxConns)
    \/ \E oserr \in BOOLEAN : PollNext("A", oserr)

SpecAccept == Init /\ [][NextAccept]_vars

\* The caller of incoming() keeps pulling the sequence it holds.
FairSpecAccept == SpecAccept /\ WF_vars(PollNext("A", FALSE))

\* One Endpoint, one connection made through it and the bytes it carries.
NextIO ==
    \/ \E p \in Paths : New("A", p)
    \/ IncomingBind("A")
    \/ IncomingApply("A")
    \/ DropStream("A")
    \/ Drop("A")
    \/ \E p \in Paths : Connect("owner", p, 1)
    \/ PollNext("A", FALSE)
    \/ \E s \in Sides, len \in 0..MaxMsg, n \in 1..MaxMsg : Write(1, s, len, n)
    \/ \E s \in Sides, cap \in 1..MaxMsg : Read(1, s, cap)
    \/ \E s \in Sides : Shutdown(1, s)
    \/ \E s \in Sides : CloseConn(1, s)

\* The listening process runs with the usual mask.
InitIO == Init /\ umask = \o022

SpecIO == InitIO /\ [][NextIO]_vars

\* The holder of each end of a Connection keeps reading it.
FairSpecIO ==
    SpecIO /\ \A s \in Sides : WF_vars(\E cap \in 1..MaxMsg : Read(1, s, cap))

\* apply_permissions called on its own: on the attributes of an Endpoint,
\* with any path string.
ApplyPermissions(e, path) ==
    /\ ep[e].alive /\ ep[e].pc = "idle"
    /\ LET r == apply_permissions(ep[e].attrs, fs, path)
       IN  /\ fs' = r.fs
           /\ last' = Call("apply_permissions", path, r.res, 0,
                           IF r.syscall THEN 1 ELSE 0)
    /\ UNCHANGED <<umask, ep, lsnr, conn, nextConn>>

\* The inputs of apply_permissions: any attributes value, and a path at
\* which a socket file is or is not present.
InitApply ==
    /\ umask \in Umasks
    /\ fs \in [Paths -> {NoNode, [exists |-> TRUE, mode |-> \o777 - umask, lsn |-> 0]}]
    /\ \E a \in AttrValues :
          ep = [e \in Endpoints |->
                  IF e = "A"
                  THEN [NoEndpoint EXCEPT !.alive = TRUE, !.attrs = a]
                  ELSE NoEndpoint]
    /\ lsnr = [l \in Listeners |-> NoListener]
    /\ conn = [c \in Conns |-> NoConn]
    /\ nextConn = 1
    /\ last = Call("none", "-", "none", 0, 0)

NextApply ==
    \/ \E a \in AttrValues : SetSecurityAttributes("A", a)
    \/ \E path \in Paths \cup NulPaths : ApplyPermissions("A", path)

SpecApply == InitApply /\ [][NextApply]_vars

\* ------------------------------------------------------------------ claims
\* The listening socket a node at the path names, when it is listening.
ListeningAt(path) ==
    fs[path].exists /\ fs[path].lsn # 0 /\ lsnr[fs[path].lsn].open

\* C1 as stated: whenever incoming() returns Ok on an Endpoint whose
\* attributes hold a permission value m, the node at its path exists with
\* permission bits exactly m, for every m.
C1_IncomingSetsModeExactly ==
    \A e \in Endpoints :
        (last = Call("incoming", e, "Ok", 0, 0) /\ ep[e].attrs.mode # None)
            => /\ fs[ep[e].path].exists
               /\ fs[ep[e].path].mode = ep[e].attrs.mode

\* C1 as amended: whenever incoming() returns Ok on an Endpoint whose
\* attributes hold a permission value m, the node at its path exists with
\* the twelve low bits of m as its permission bits, which is m itself for
\* every m up to 0o7777 (0600 by default, 0666, 0640).
C1_IncomingSetsModeBits ==
    \A e \in Endpoints :
        (last = Call("incoming", e, "Ok", 0, 0) /\ ep[e].attrs.mode # None)
            => /\ fs[ep[e].path].exists
               /\ fs[ep[e].path].mode = ep[e].attrs.mode % \o10000
               /\ ep[e].attrs.mode <= \o7777
                    => fs[ep[e].path].mode = ep[e].attrs.mode

C1_Witness ==
    \E e \in Endpoints :
        /\ last = Call("incoming", e, "Ok", 0, 0)
        /\ ep[e].attrs = set_mode(empty, \o640)
        /\ fs[ep[e].path].mode = \o640
        /\ CreateMode # \o640

\* C2: right after an Endpoint that held a bound listener is dropped no node
\* exists at its path, and every drop, of a bound Endpoint or of one on
\* which incoming() was never called, hands no error to its caller.
C2_DropRemovesNodeSilently ==
    \A e \in Endpoints :
        (last.op = "drop" /\ last.who = e)
            => /\ last.res = "Unit"
               /\ last.n = 1 => ~fs[ep[e].path].exists

C2_Witness ==
    \E e \in Endpoints :
        /\ last = Call("drop", e, "Unit", 0, 1)
        /\ ~fs[ep[e].path].exists
        /\ ~ep[e].alive

\* C3: when the node at path P names the listening socket of a live
\* Endpoint, a step of incoming() on another Endpoint with path P returns
\* an address-in-use error and starts no accept session.
C3_SecondBindAddrInUse ==
    [][\A e \in Endpoints :
          (/\ IncomingBind(e)
           /\ \E o \in Endpoints \ {e} :
                 /\ ep[o].alive /\ ep[o].path = ep[e].path
                 /\ fs[ep[e].path].exists /\ fs[ep[e].path].lsn = ep[o].lsn)
            => /\ last' = Call("incoming", e, "AddrInUse", 0, 0)
               /\ ~ep'[e].sess /\ ep'[e].pc = "idle"
               /\ ep'[e].lsn = ep[e].lsn]_vars

C3_Witness ==
    /\ last = Call("incoming", "B", "AddrInUse", 0, 0)
    /\ ep["A"].alive /\ ep["A"].sess /\ ep["A"].path = ep["B"].path
    /\ fs[ep["B"].path].exists /\ fs[ep["B"].path].lsn = ep["A"].lsn
    /\ ~ep["B"].sess

\* C9: a connect to a path at which no listener is active (no node, or a
\* node whose socket is not listening) returns a not-found or
\* connection-refused error and no Connection.
C9_ConnectNoListenerFails ==
    [][\A u \in Users, p \in Paths :
          (Connect(u, p, LifeConns) /\ ~ListeningAt(p))
            => /\ last'.op = "connect"
               /\ last'.res \in {"NotFound", "ConnRefused"}
               /\ last'.conn = 0
               /\ conn' = conn]_vars

\* A connect fails after the Endpoint that was dialed before is destroyed.
C9_Witness ==
    /\ last = Call("connect", "owner", "NotFound", 0, 0)
    /\ nextConn > 1
    /\ \A e \in Endpoints : ~ep[e].alive

\* Endpoint e has started its incoming sequence on the socket the node at
\* the path names.
Started(e, path) ==
    /\ ep[e].alive /\ ep[e].sess /\ ep[e].path = path
    /\ fs[path].exists /\ fs[path].lsn = ep[e].lsn

\* Connection c waits in the accept queue of the session of Endpoint e.
QueuedOn(c, e) ==
    ep[e].alive /\ ep[e].sess /\ c \in InQueue(lsnr[ep[e].lsn].queue)

NoDuplicates(q) == \A i, j \in 1..Len(q) : i # j => q[i] # q[j]

\* C4 as stated: a connect to the path of an Endpoint that has started its
\* incoming sequence succeeds with a Connection queued on that Endpoint.
C4_ConnectAlwaysSucceeds ==
    [][\A u \in Users, p \in Paths, e \in Endpoints :
          (Connect(u, p, MaxConns) /\ Started(e, p))
            => /\ last' = Call("connect", u, "Ok", nextConn, 0)
               /\ nextConn \in InQueue(lsnr'[ep[e].lsn].queue)]_vars

\* C4 as amended: a connect to the path of an Endpoint that has started its
\* incoming sequence, by a client with write permission on the node and
\* while the listener's backlog has room, succeeds with a Connection queued
\* on that Endpoint; every queued connection is yielded at most once, as the
\* accepted end of the dialed pair; and while the session is pulled, a
\* queued connection is eventually yielded, unless the session ends first.
C4_ConnectSucceedsAndIsYielded ==
    /\ [][\A u \in Users, p \in Paths, e \in Endpoints :
            (/\ Connect(u, p, MaxConns) /\ Started(e, p)
             /\ MayWrite(u, fs[p].mode)
             /\ Len(lsnr[ep[e].lsn].queue) < Backlog)
              => /\ last' = Call("connect", u, "Ok", nextConn, 0)
                 /\ conn'[nextConn].open["cli"]
                 /\ nextConn \in InQueue(lsnr'[ep[e].lsn].queue)]_vars
    /\ [](\A l \in Listeners :
            /\ NoDuplicates(lsnr[l].yielded)
            /\ \A c \in InQueue(lsnr[l].yielded) :
                  conn[c].st = "open" /\ conn[c].open["srv"])
    /\ \A c \in Conns :
          QueuedOn(c, "A")
            ~> (\/ ~ep["A"].sess
                \/ c \in InQueue(lsnr[ep["A"].lsn].yielded))

\* The connection a client of the other user dialed was yielded to the
\* Endpoint, both ends open.
C4_Witness ==
    /\ last.op = "poll_next" /\ last.who = "A" /\ last.res = "SomeOk"
    /\ last.conn # 0
    /\ conn[last.conn].st = "open"
    /\ conn[last.conn].open["cli"] /\ conn[last.conn].open["srv"]
    /\ ep["A"].attrs = allow_everyone_connect(empty)

\* C5: on every listener the connections yielded so far, followed by those
\* still queued, are the connections in the order they arrived, and a pull
\* that yields hands out the oldest one not yet yielded: none is skipped,
\* duplicated or reordered, and one pull yields one connection.
C5_YieldedInArrivalOrder ==
    /\ \A l \in Listeners :
          lsnr[l].open => lsnr[l].arrived = lsnr[l].yielded \o lsnr[l].queue
    /\ \A e \in Endpoints :
          (last.op = "poll_next" /\ last.who = e /\ last.res = "SomeOk")
            => LET y == lsnr[ep[e].lsn].yielded
               IN  /\ y # <<>>
                   /\ last.conn = y[Len(y)]
                   /\ last.conn = lsnr[ep[e].lsn].arrived[Len(y)]

\* The older of two queued connections was yielded, the newer is queued.
C5_Witness ==
    /\ last = Call("poll_next", "A", "SomeOk", 1, 0)
    /\ lsnr[ep["A"].lsn].arrived = <<1, 2>>
    /\ lsnr[ep["A"].lsn].queue = <<2>>

\* C6: a pull returns Pending, an Ok item or an Err item, never the end of
\* the sequence; after an Err item the session is still alive on a listening
\* socket that still queues the connection, so that the next pull, if the
\* OS reports no error, yields an Ok item.
C6_SequenceNeverEnds ==
    \A e \in Endpoints :
        (last.op = "poll_next" /\ last.who = e)
            => /\ last.res \in {"Pending", "SomeOk", "SomeErr"}
               /\ ep[e].alive /\ ep[e].sess /\ lsnr[ep[e].lsn].open
               /\ last.res = "SomeErr"
                    => /\ lsnr[ep[e].lsn].queue # <<>>
                       /\ poll_next(poll_accept(lsnr, ep[e].lsn, FALSE)) = "SomeOk"

\* An Ok item was yielded by a listener that reported an accept error.
C6_Witness ==
    /\ last.op = "poll_next" /\ last.who = "A" /\ last.res = "SomeOk"
    /\ lsnr[ep["A"].lsn].errs > 0

IsPrefix(a, b) == Len(a) <= Len(b) /\ SubSeq(b, 1, Len(a)) = a

\* The first k bytes of the message of side s.
MsgPrefix(s, k) == [i \in 1..k |-> Msg(s, i)]

\* The reading end t of connection c is held, or still waits to be accepted.
Receiving(c, t) ==
    \/ conn[c].open[t]
    \/ t = "srv" /\ conn[c].st = "queued"

\* C7: in each direction of every connection the bytes read are at every
\* moment a prefix of the bytes written, which are the caller's bytes with
\* nothing added; while the reading end is held nothing is lost: what was
\* written is what was read followed by what the kernel still buffers; a
\* write takes exactly the bytes it reports (none for an empty write, some
\* of them for a partial one) and a read delivers the oldest buffered bytes;
\* and while the reader keeps reading, the bytes read eventually equal the
\* bytes written.
C7_BytesArriveInOrder ==
    /\ [](\A c \in Conns, s \in Sides :
            /\ IsPrefix(conn[c].rcvd[Peer(s)], conn[c].sent[s])
            /\ conn[c].sent[s] = MsgPrefix(s, Len(conn[c].sent[s]))
            /\ Receiving(c, Peer(s))
                 => conn[c].sent[s] = conn[c].rcvd[Peer(s)] \o conn[c].buf[s])
    /\ [][\A c \in Conns, s \in Sides :
            /\ (last'.op = "write" /\ last'.conn = c /\ last'.who = s)
                 => /\ Len(conn'[c].sent[s]) = Len(conn[c].sent[s]) + last'.n
                    /\ conn'[c].buf[s] =
                         conn[c].buf[s] \o SubSeq(conn'[c].sent[s],
                                                  Len(conn[c].sent[s]) + 1,
                                                  Len(conn'[c].sent[s]))
                    /\ conn'[c].rcvd = conn[c].rcvd
            /\ (last'.op = "read" /\ last'.conn = c /\ last'.who = s)
                 => /\ conn'[c].rcvd[s] =
                         conn[c].rcvd[s] \o SubSeq(conn[c].buf[Peer(s)], 1, last'.n)
                    /\ conn'[c].sent = conn[c].sent]_vars
    /\ \A c \in {1}, s \in Sides :
          (conn[c].st = "open" /\ conn[c].open[Peer(s)])
            ~> (\/ conn[c].rcvd[Peer(s)] = conn[c].sent[s]
                \/ ~conn[c].open[Peer(s)])

\* A message that did not fit the kernel buffer in one write has arrived
\* whole at the accepting end.
C7_Witness ==
    \E c \in Conns :
        /\ conn[c].sent["cli"] = MsgPrefix("cli", BufCap + 1)
        /\ conn[c].rcvd["srv"] = conn[c].sent["cli"]

\* C8: an end that has read the zero-length end-of-stream completion has
\* read every byte its peer wrote, a zero-length read is that completion,
\* and a shutdown closes only the write half: it leaves what the shutting
\* down side has to read and has read as it is, and a byte buffered for
\* that side is still read by it.
C8_EofAfterAllBytes ==
    /\ [](\A c \in Conns, s \in Sides :
            /\ conn[c].eof[s] => conn[c].rcvd[s] = conn[c].sent[Peer(s)]
            /\ (last.op = "read" /\ last.conn = c /\ last.who = s
                  /\ last.res = "Ok" /\ last.n = 0)
                 => /\ conn[c].eof[s]
                    /\ conn[c].wshut[Peer(s)] \/ PeerGone(conn[c], s)
            /\ (conn[c].open[s] /\ conn[c].wshut[s] /\ conn[c].buf[Peer(s)] # <<>>)
                 => poll_read(conn[c], s, 1).n = 1)
    /\ [][\A c \in Conns, s \in Sides :
            Shutdown(c, s)
              => /\ conn'[c] = [conn[c] EXCEPT !.wshut[s] = TRUE]
                 /\ last'.res = "Ok"]_vars

\* The client wrote its message and shut down; the server has read all of
\* it and then the end of the stream, and has itself written to the client,
\* which has read that after its shutdown.
C8_Witness ==
    \E c \in Conns :
        /\ last = Call("read", "cli", "Ok", c, 1)
        /\ conn[c].wshut["cli"] /\ ~conn[c].wshut["srv"]
        /\ conn[c].open["cli"] /\ conn[c].open["srv"]
        /\ conn[c].sent["cli"] = MsgPrefix("cli", 1)
        /\ conn[c].rcvd["srv"] = conn[c].sent["cli"]
        /\ conn[c].eof["srv"]
        /\ conn[c].sent["srv"] = MsgPrefix("srv", 1)
        /\ conn[c].rcvd["cli"] = conn[c].sent["srv"]

\* C10 as stated: the drop of an Endpoint leaves every connection accepted
\* from it or dialed to it as it was.
C10_DropLeavesAllConnections ==
    [][\A e \in Endpoints :
          Drop(e) => \A c \in Conns :
                        conn[c].st \in {"queued", "open"} => conn'[c] = conn[c]]_vars

\* C10 as amended: the drop of an Endpoint leaves every accepted connection,
\* its accepted end and its dialing end, as it was, so that reads and writes
\* on it go on after the teardown; a connection dialed to the Endpoint and
\* still waiting in its accept queue is released with the listener: its
\* dialing side then finds the peer gone.
C10_DropLeavesAcceptedConnections ==
    /\ [][\A e \in Endpoints :
            Drop(e) => \A c \in Conns :
                /\ conn[c].st # "queued" => conn'[c] = conn[c]
                /\ (conn[c].st = "queued" /\ c \in InQueue(lsnr[ep[e].lsn].queue))
                     => conn'[c].st = "reset" /\ PeerGone(conn'[c], "cli")]_vars
    /\ [](\A c \in Conns, s \in Sides :
            (conn[c].st = "open" /\ conn[c].open["cli"] /\ conn[c].open["srv"])
              => /\ conn[c].buf[Peer(s)] # <<>> => poll_read(conn[c], s, 1).n = 1
                 /\ (~conn[c].wshut[s] /\ conn[c].buf[s] = <<>>)
                      => poll_write(conn[c], s, <<0>>, 1).n = 1)

\* After the Endpoint is gone a byte written after the teardown is read on
\* a connection accepted from it.
C10_Witness ==
    \E c \in Conns :
        /\ last = Call("read", "srv", "Ok", c, 1)
        /\ \A e \in Endpoints : ~ep[e].alive
        /\ \A l \in Listeners : ~lsnr[l].open
        /\ conn[c].st = "open"

\* The users whose connect to the path is admitted.
CanConnect(f, ls, path) == {u \in Users : connect(f, ls, u, path) = "Ok"}

\* C11: allow_everyone_create() holds no permission override, and right
\* after incoming() returned Ok on an Endpoint configured with it the users
\* able to connect to its node are those able to connect to the node as
\* allow_everyone_connect() would have left it.
C11_CreateEquivalentToConnect ==
    \A e \in Endpoints :
        (last = Call("incoming", e, "Ok", 0, 0) /\ ep[e].attrs = allow_everyone_create)
            => /\ ep[e].attrs.mode = None
               /\ CanConnect(fs, lsnr, ep[e].path)
                    = CanConnect(apply_permissions(allow_everyone_connect(empty),
                                                   fs, ep[e].path).fs,
                                 lsnr, ep[e].path)

\* C12: a step of set_security_attributes stores the given attributes and
\* leaves the Endpoint's path, its stored listener, every listening socket
\* and every filesystem node as they were; the permission bits of a node
\* change only in a step of incoming() or of a teardown, and an incoming()
\* that returns Ok has stamped the node with the attributes stored then.
C12_SetAttributesOnlyStores ==
    /\ [][\A e \in Endpoints :
            (last'.op = "set_security_attributes" /\ last'.who = e)
                => /\ ep'[e].attrs \in AttrValues
                   /\ ep'[e].path = ep[e].path
                   /\ ep'[e].lsn = ep[e].lsn
                   /\ fs' = fs /\ lsnr' = lsnr
                   /\ \A o \in Endpoints \ {e} : ep'[o] = ep[o]]_vars
    /\ [][\A p \in Paths :
            fs'[p] # fs[p] => last'.op \in {"bind", "incoming", "drop"}]_vars
    /\ [](\A e \in Endpoints :
            (last = Call("incoming", e, "Ok", 0, 0) /\ ep[e].attrs.mode # None)
                => fs[ep[e].path].mode = ep[e].attrs.mode % \o10000)

\* New attributes are stored while the node bound earlier keeps its bits.
C12_Witness ==
    \E e \in Endpoints :
        /\ last = Call("set_security_attributes", e, "Unit", 0, 0)
        /\ ep[e].attrs = allow_everyone_connect(empty)
        /\ ep[e].lsn # 0 /\ lsnr[ep[e].lsn].open
        /\ fs[ep[e].path].exists /\ fs[ep[e].path].lsn = ep[e].lsn
        /\ fs[ep[e].path].mode = \o600

\* C13: apply_permissions on a path with an embedded NUL byte returns an
\* invalid-input error and issues no chmod, whatever the attributes hold,
\* and leaves every node as it is; on a path without one and attributes
\* with no override it returns Ok and issues no chmod either.
C13_NulPathInvalidInput ==
    /\ \A a \in AttrValues, path \in NulPaths :
          LET r == apply_permissions(a, fs, path)
          IN  r.res = "InvalidInput" /\ ~r.syscall /\ r.fs = fs
    /\ \A path \in Paths :
          LET r == apply_permissions(allow_everyone_create, fs, path)
          IN  r.res = "Ok" /\ ~r.syscall /\ r.fs = fs
    /\ (last.op = "apply_permissions" /\ last.who \in NulPaths)
          => last.res = "InvalidInput" /\ last.n = 0
    /\ (last.op = "apply_permissions" /\ last.who \in Paths
                                     /\ ep["A"].attrs.mode = None)
          => last.res = "Ok" /\ last.n = 0

\* The call fails on a NUL path although the attributes hold an override
\* and a node that a chmod would reach is there.
C13_Witness ==
    /\ last = Call("apply_permissions", "p_NUL_q", "InvalidInput", 0, 0)
    /\ ep["A"].attrs = allow_everyone_connect(empty)
    /\ fs["p"].exists /\ fs["p"].mode = CreateMode

\* Endpoint e, holding a listener, takes the bind step of incoming().
RebindStep(e) ==
    /\ ep[e].pc = "idle" /\ ep[e].lsn # 0
    /\ last'.who = e /\ last'.op \in {"bind", "incoming"}

\* C14 as stated: when incoming() is called on an Endpoint that holds a
\* listener, the Endpoint no longer holds that listener, and the listener is
\* closed, when the call returns a bind error and when its bind succeeded
\* and the new listener is stored.
C14_RebindAlwaysDiscards ==
    [][\A e \in Endpoints :
          \/ RebindStep(e) /\ last'.op = "incoming"
          \/ ep[e].pc = "storing" /\ last'.who = e /\ last'.op = "store"
          => /\ ep'[e].lsn # ep[e].lsn
             /\ ~lsnr'[ep[e].lsn].open]_vars

\* C14 as amended: a second incoming() attempts a fresh bind at the same
\* path. When the bind succeeds the Endpoint stores the new listener, which
\* the node then names, and the listener of the first call is closed; when
\* the bind fails the call returns the error and the Endpoint still holds
\* the listener of the first call, still listening. The permission step
\* that follows a successful bind changes neither.
C14_RebindDiscardsOnSuccess ==
    /\ [][\A e \in Endpoints :
            RebindStep(e) =>
                IF last'.op = "bind"
                THEN /\ ep'[e].pc = "storing"
                     /\ lsnr'[ep'[e].tmp].open
                     /\ fs'[ep[e].path].lsn = ep'[e].tmp
                     /\ ~fs[ep[e].path].exists
                ELSE /\ last'.res = "AddrInUse"
                     /\ ep'[e] = ep[e]
                     /\ lsnr' = lsnr /\ lsnr[ep[e].lsn].open]_vars
    /\ [][\A e \in Endpoints :
            (ep[e].pc = "storing" /\ last'.who = e)
                => /\ last'.op = "store"
                   /\ ep'[e].lsn = ep[e].tmp /\ ep'[e].lsn # ep[e].lsn
                   /\ ~lsnr'[ep[e].lsn].open
                   /\ lsnr'[ep'[e].lsn].open
                   /\ ep'[e].pc = "applying"]_vars
    /\ [][\A e \in Endpoints :
            (ep[e].pc = "applying" /\ last'.who = e /\ last'.op = "incoming")
                => ep'[e].lsn = ep[e].lsn /\ lsnr' = lsnr]_vars

\* The second incoming() of an Endpoint fails on the node its first call
\* created, and the listener of the first call is still the stored one.
C14_Witness ==
    /\ last = Call("incoming", "A", "AddrInUse", 0, 0)
    /\ ep["A"].lsn # 0 /\ lsnr[ep["A"].lsn].open
    /\ fs[ep["A"].path].exists /\ fs[ep["A"].path].lsn = ep["A"].lsn

\* The live listening sockets Endpoint e created.
LiveListeners(e) == {l \in ListenersOf(e) : lsnr[l].open}

\* C15 as stated: in every reachable state, the intermediate steps of a
\* repeated incoming() included, at most one live listening socket created
\* by an Endpoint exists, and no incoming() call of an Endpoint, which
\* would make a second accept session, is under way while one is alive.
C15_OneListenerAlways ==
    \A e \in Endpoints :
        /\ Cardinality(LiveListeners(e)) <= 1
        /\ ep[e].sess => ep[e].pc = "idle"

\* C15 as amended: in every reachable state an Endpoint stores at most one
\* listening socket, and at most one accept session derived from it is
\* alive: no step of incoming() is taken while one is. The stored listener
\* is the only live one the Endpoint created, except between the bind and
\* the store of a repeated incoming() whose bind succeeded: there the new
\* listener and the one stored before are both live.
C15_OneListenerStored ==
    /\ [](\A e \in Endpoints :
            /\ ep[e].pc # "storing"
                 => /\ LiveListeners(e) = {ep[e].lsn} \ {0}
                    /\ ep[e].tmp = 0
            /\ ep[e].pc = "storing"
                 => /\ LiveListeners(e) = {ep[e].lsn, ep[e].tmp}
                    /\ Cardinality(LiveListeners(e)) = 2
            /\ ep[e].sess => ep[e].pc = "idle" /\ ep[e].lsn # 0)
    /\ [][\A e \in Endpoints :
            (last'.who = e /\ last'.op \in {"bind", "store", "incoming"})
                => ~ep[e].sess]_vars

\* The second bind of an Endpoint succeeded after its node was removed: the
\* listener of its first call is still open next to the new one.
C15_Witness ==
    /\ ep["A"].pc = "storing"
    /\ LiveListeners("A") = {1, 2}
    /\ fs[ep["A"].path].lsn = ep["A"].tmp
    /\ last.who = "A"

\* C16: a pull on the incoming sequence, a read or a write that is pending
\* (and may then be discarded) leaves every socket as it was: no connection
\* leaves or enters an accept queue, no byte leaves or enters a buffer, and
\* the next pull and the next read yield what they would have yielded before
\* the pending operation was started.
C16_PendingLeavesSocketsAlone ==
    [][last'.res = "Pending"
        => /\ last'.op \in {"poll_next", "read", "write"}
           /\ lsnr' = lsnr /\ conn' = conn /\ fs' = fs /\ ep' = ep
           /\ \A e \in Endpoints :
                ep[e].sess => poll_accept(lsnr', ep[e].lsn, FALSE)
                                = poll_accept(lsnr, ep[e].lsn, FALSE)
           /\ \A c \in Conns, s \in Sides, cap \in 1..MaxMsg :
                poll_read(conn'[c], s, cap) = poll_read(conn[c], s, cap)]_vars

\* A write is pending on a full buffer that still holds what was written.
C16_Witness ==
    /\ last = Call("write", "cli", "Pending", 1, 0)
    /\ conn[1].buf["cli"] = MsgPrefix("cli", BufCap)
    /\ conn[1].sent["cli"] = MsgPrefix("cli", BufCap)
    /\ conn[1].st = "open"

\* C17: while an Endpoint holds the listening socket that the node at its
\* path names, and stays alive, no step removes or replaces that node: the
\* teardown of another Endpoint constructed with the same path, never bound
\* or refused with address-in-use, leaves it in place.
C17_DropRemovesOnlyOwnNode ==
    [][\A e \in Endpoints :
          (/\ ep[e].alive /\ ep[e].lsn # 0
           /\ fs[ep[e].path].exists /\ fs[ep[e].path].lsn = ep[e].lsn
           /\ ep'[e].alive)
            => fs'[ep[e].path] = fs[ep[e].path]
               \/ last'.who = e]_vars

\* C18: the node a listener is bound to carries the configured permission
\* value, so that whenever a client's connect has been admitted by that
\* listener while its Endpoint stands between the bind step and the
\* permission step of incoming(), the client is one that the configured
\* value admits: none gets in on the strength of the create-time bits.
C18_NoConnectUnderCreateMode ==
    \A e \in Endpoints, u \in Users :
        (/\ last.op = "connect" /\ last.who = u /\ last.res = "Ok"
         /\ ep[e].pc = "applying" /\ ep[e].attrs.mode # None
         /\ fs[ep[e].path].exists /\ fs[ep[e].path].lsn = ep[e].lsn)
            => MayWrite(u, ep[e].attrs.mode % \o10000)

\* C19: a call of incoming() that returns at its bind step returns the bind
\* error and leaves every Endpoint (path, attributes, stored listener and
\* no session), every listening socket (the stored one still listening),
\* every queued connection and every filesystem node as they were: no
\* node is created, stamped or removed.
C19_BindFailureChangesNothing ==
    [][\A e \in Endpoints :
          (ep[e].pc = "idle" /\ last'.who = e /\ last'.op = "incoming")
            => /\ last'.res = "AddrInUse"
               /\ fs[ep[e].path].exists
               /\ ep' = ep /\ ep'[e].pc = "idle" /\ ~ep'[e].sess
               /\ fs' = fs /\ lsnr' = lsnr /\ conn' = conn
               /\ ep[e].lsn # 0 => lsnr'[ep'[e].lsn].open]_vars

\* The first incoming() of an Endpoint configured with 0666 fails on a node
\* of another Endpoint, which keeps its 0600 and its listener.
C19_Witness ==
    /\ last = Call("incoming", "B", "AddrInUse", 0, 0)
    /\ ep["B"].lsn = 0 /\ ep["B"].attrs = allow_everyone_connect(empty)
    /\ fs[ep["B"].path].exists /\ fs[ep["B"].path].mode = \o600
    /\ fs[ep["B"].path].lsn = ep["A"].lsn /\ lsnr[ep["A"].lsn].open

\* C20: right after incoming() returned the error of its permission step,
\* the Endpoint has no accept session, the listener it has just bound is
\* stored and listening, and the node is in place, naming that listener,
\* with its create-time permission bits.
C20_ApplyFailureKeepsNode ==
    \A e \in Endpoints :
        (/\ last.op = "incoming" /\ last.who = e
         /\ last.res \notin {"Ok", "AddrInUse"})
            => /\ ~ep[e].sess /\ ep[e].pc = "idle"
               /\ ep[e].lsn # 0 /\ lsnr[ep[e].lsn].open
               /\ fs[ep[e].path].exists
               /\ fs[ep[e].path].lsn = ep[e].lsn
               /\ fs[ep[e].path].mode = CreateMode
====
